---- MODULE Spec2Model ----
(***************************************************************************)
(* Model of the BitTorrent client core: the work queue (peers.rs), the     *)
(* peer session and block scheduler (activepeer.rs) and the wire codec     *)
(* (peers.rs, MessageFramer).                                              *)
(*                                                                         *)
(* A block's bytes are abstracted to one token <<piece, block>>: the       *)
(* token of block j of piece i stands for the correct bytes of that block. *)
(* SHA-1 is abstracted to an injective function of the token sequence.     *)
(***************************************************************************)
EXTENDS Integers, Sequences, FiniteSets, TLC

\* ------------------------------------------------------------------ bounds
\* Number of worker sessions sharing the queue and the output buffer.
NumWorkers == 2
\* Number of pieces of the torrent.
NumPieces == 2
\* Length in bytes of the last piece of the torrent.
TailLen == 3616
\* Cap on the requests a peer leaves unanswered while it sends other messages.
MaxInFlight == 2
\* Number of messages in a stream handed to the codec.
MaxMsgs == 2
\* Number of keep-alive frames a sender inserts into a stream.
MaxKeepAlives == 2
\* Number of reads that deliver less than everything written so far.
MaxPartialReads == 1
MaxRawWrites == 2
\* Cap on the number of pieces of a descriptor handed to get_piece_size.
MaxDescPieces == 3

\* --------------------------------------------------------------- constants
\* activepeer.rs: const BLOCK_MAX: usize = 1 << 14
BLOCK_MAX == 16384
\* activepeer.rs: work_queue.sender.send(999999)
SENTINEL == 999999

Workers == 1..NumWorkers
NoWorker == 0
None == -1

\* ---------------------------------------------------------------- torrent
\* Keys::SingleFile { length } and Keys::MultiFile { files }, a file being its
\* length.
SingleFile(length) == [kind |-> "SingleFile", length |-> length, files |-> <<>>]
MultiFile(files) == [kind |-> "MultiFile", length |-> 0, files |-> files]

RECURSIVE SumFiles(_, _)
\* for file in files.iter() { sum += file.length }
SumFiles(sum, files) ==
    IF files = <<>> THEN sum ELSE SumFiles(sum + Head(files), Tail(files))

\* Info::calculate_length
calculate_length_of(keys) ==
    IF keys.kind = "SingleFile" THEN keys.length ELSE SumFiles(0, keys.files)

\* A piece size that forgets the piece length when the remainder is 0.
get_piece_size_remainder(piece_index, t) ==
    IF piece_index = t.pieces_len - 1
    THEN calculate_length_of(t.keys) % t.plength
    ELSE t.plength
\* ActivePeer::get_piece_size(piece_index, t)
get_piece_size_of(piece_index, t) ==
    IF piece_index = t.pieces_len - 1
    THEN LET md == calculate_length_of(t.keys) % t.plength
         IN  IF md = 0 THEN t.plength ELSE md
    ELSE t.plength

\* Info.plength: two full blocks per piece.
plength == 2 * BLOCK_MAX
\* t.pieces.0.len()
pieces_len == NumPieces
\* The torrent the sessions download: a single file.
torrent ==
    [plength |-> plength, pieces_len |-> pieces_len,
     keys |-> SingleFile((NumPieces - 1) * plength + TailLen)]
\* Info::calculate_length for the single-file case.
calculate_length == calculate_length_of(torrent.keys)
PieceIndices == 0..(pieces_len - 1)

\* ActivePeer::get_piece_size
get_piece_size(piece_index) == get_piece_size_of(piece_index, torrent)

\* let nblocks = (piece_size + (BLOCK_MAX - 1)) / BLOCK_MAX
nblocks_of(piece_size) == (piece_size + (BLOCK_MAX - 1)) \div BLOCK_MAX

\* A block size that is the remainder also when the remainder is 0.
block_size_remainder(piece_size, block) ==
    IF block = nblocks_of(piece_size) - 1 THEN piece_size % BLOCK_MAX ELSE BLOCK_MAX
\* block_size in send_block_request / download_piece
block_size(piece_size, block) ==
    IF block = nblocks_of(piece_size) - 1
    THEN LET md == piece_size % BLOCK_MAX
         IN  IF md = 0 THEN BLOCK_MAX ELSE md
    ELSE BLOCK_MAX

\* The bytes of the source file, piece by piece, as block tokens.
PieceData(i) == [j \in 1..nblocks_of(get_piece_size(i)) |-> <<i, j - 1>>]
\* Bytes that belong to no block of the file.
Corrupt == <<pieces_len, 0>>
Tokens == UNION {{PieceData(i)[j] : j \in 1..Len(PieceData(i))} : i \in PieceIndices}
              \cup {Corrupt}
\* Number of bytes a token of the file stands for.
TokenBytes(tok) == block_size(get_piece_size(tok[1]), tok[2])

\* Sha1 digest: injective on the token sequences of the model.
Sha1(data) == <<"sha1", data>>
\* torrent.torrent_file.info.pieces.0[i]
piece_hash(i) == Sha1(PieceData(i))

RECURSIVE SumBytes(_)
SumBytes(s) == IF s = <<>> THEN 0 ELSE TokenBytes(Head(s)) + SumBytes(Tail(s))

RECURSIVE Concat(_)
Concat(ss) == IF ss = <<>> THEN <<>> ELSE Head(ss) \o Concat(Tail(ss))

Count(s, x) == Cardinality({p \in 1..Len(s) : s[p] = x})

\* --------------------------------------------------------------- messages
\* MessageTag
Choke == 0
Unchoke == 1
Interested == 2
NotInterested == 3
Have == 4
Bitfield == 5
Request == 6
Piece == 7
Cancel == 8
MessageTags == Choke..Cancel

\* struct Message { tag, payload }
Message(tag, payload) == [tag |-> tag, payload |-> payload]

\* Payloads a peer sends as its bitfield.
Bitfields == {<<255>>}

\* A payload of 8 bytes or more is the triple <<first 4 bytes, next 4 bytes,
\* token of the bytes after them>> (Piece: index || begin || block; Request and
\* Cancel: index || begin || length); a shorter payload is a shorter tuple.
Range(s) == {s[p] : p \in 1..Len(s)}

\* Request::new(piece_index, block * BLOCK_MAX, block_size) as written to the
\* connection by send_block_request and download_piece.
RequestFor(piece_index, blk) ==
    <<piece_index, blk * BLOCK_MAX, block_size(get_piece_size(piece_index), blk)>>

\* The same Request for a piece of the given size.
Request_new(piece_index, piece_size, blk) ==
    <<piece_index, blk * BLOCK_MAX, block_size(piece_size, blk)>>

\* What a peer answers to request r: the block asked for (when it is a block
\* of the file) or bytes that are no block of the file.
AnswerData(r) ==
    (IF r[1] \in PieceIndices THEN {<<r[1], r[2] \div BLOCK_MAX>>} ELSE {})
        \cup {Corrupt}
Answers(reqs) ==
    UNION {{Message(Piece, <<r[1], r[2], tok>>) : tok \in AnswerData(r)} : r \in reqs}

\* The messages that are no Piece.
NonPieceMessages ==
    {Message(t, <<>>) : t \in {Choke, Unchoke, Interested, NotInterested}}
        \cup {Message(Have, <<k>>) : k \in PieceIndices}
        \cup {Message(Bitfield, b) : b \in Bitfields}
        \cup {Message(t, <<0, 0, Corrupt>>) : t \in {Request, Cancel}}

\* A Piece message cut short of its 8-byte header.
ShortPiece == Message(Piece, <<>>)

\* The peer may let the requests reqs wait while something else reaches the
\* session.
MayDelay(reqs) == Len(reqs) < MaxInFlight

\* Every message a peer can put on the wire, given the requests reqs it has
\* not answered: an answer to any of them, or another message.
PeerMessages(reqs) ==
    Answers(Range(reqs))
        \cup (IF MayDelay(reqs) THEN NonPieceMessages ELSE {})
        \cup {ShortPiece}

\* The Piece message that answers request r with the block it asks for.
CorrectAnswer(r) == Message(Piece, <<r[1], r[2], <<r[1], r[2] \div BLOCK_MAX>>>>)

\* What a peer that serves the download sends besides its answers.
CooperativeExtras == NonPieceMessages

\* A peer that answers every request before it sends anything else.
PoliteMessages(reqs) ==
    IF reqs # <<>> THEN Answers({Head(reqs)})
    ELSE {Message(Choke, <<>>), Message(Unchoke, <<>>), Message(Have, <<0>>)}

\* Piece::ref_from_bytes: None when the payload is shorter than PIECE_LEAD.
ref_is_none(payload) == Len(payload) < 3
\* Piece::ref_from_bytes: the view of a payload that holds the header.
ref_from_bytes(payload) ==
    [index |-> payload[1], begin |-> payload[2], block |-> payload[3]]

RECURSIVE RemoveFirst(_, _, _)
RemoveFirst(reqs, index, begin) ==
    IF reqs = <<>> THEN <<>>
    ELSE IF Head(reqs)[1] = index /\ Head(reqs)[2] = begin THEN Tail(reqs)
    ELSE <<Head(reqs)>> \o RemoveFirst(Tail(reqs), index, begin)

\* The requests still unanswered once msg has left the peer.
Answered(reqs, msg) ==
    IF msg.tag = Piece /\ ~ref_is_none(msg.payload)
    THEN RemoveFirst(reqs, msg.payload[1], msg.payload[2])
    ELSE reqs

\* ------------------------------------------------------------- wire codec
\* A byte buffer (BytesMut, Vec<u8>) is a sequence of runs <<byte, count>>,
\* count > 0, adjacent runs of different bytes: the bytes in order, with
\* repetitions counted instead of written out.
RECURSIVE len(_)
len(buf) == IF buf = <<>> THEN 0 ELSE Head(buf)[2] + len(Tail(buf))

\* dst.extend_from_slice(bytes)
extend_from_slice(dst, bytes) ==
    IF dst = <<>> THEN bytes
    ELSE IF bytes = <<>> THEN dst
    ELSE IF dst[Len(dst)][1] = bytes[1][1]
    THEN SubSeq(dst, 1, Len(dst) - 1)
             \o <<<<bytes[1][1], dst[Len(dst)][2] + bytes[1][2]>>>>
             \o Tail(bytes)
    ELSE dst \o bytes

\* dst.put_u8(b)
put_u8(dst, b) == extend_from_slice(dst, <<<<b, 1>>>>)

RECURSIVE advance(_, _)
\* src.advance(n): the buffer without its first n bytes.
advance(src, n) ==
    IF n <= 0 \/ src = <<>> THEN src
    ELSE IF Head(src)[2] <= n THEN advance(Tail(src), n - Head(src)[2])
    ELSE <<<<Head(src)[1], Head(src)[2] - n>>>> \o Tail(src)

RECURSIVE truncate(_, _)
\* The first n bytes of a buffer.
truncate(src, n) ==
    IF n <= 0 \/ src = <<>> THEN <<>>
    ELSE IF Head(src)[2] <= n
    THEN extend_from_slice(<<Head(src)>>, truncate(Tail(src), n - Head(src)[2]))
    ELSE <<<<Head(src)[1], n>>>>

\* src[from..to].to_vec()
slice(src, from, to) == truncate(advance(src, from), to - from)

RECURSIVE byte_at(_, _)
\* src[k]
byte_at(src, k) ==
    IF k < Head(src)[2] THEN Head(src)[1] ELSE byte_at(Tail(src), k - Head(src)[2])

\* u32::to_be_bytes
to_be_bytes(n) ==
    put_u8(put_u8(put_u8(put_u8(<<>>, (n \div 16777216) % 256),
                         (n \div 65536) % 256),
                  (n \div 256) % 256),
           n % 256)

\* u32::from_be_bytes
from_be_bytes(b) ==
    byte_at(b, 0) * 16777216 + byte_at(b, 1) * 65536 + byte_at(b, 2) * 256
        + byte_at(b, 3)

\* peers.rs: const MAX: usize = 1 << 16
MAX == 65536

\* An encoder without the frame-size guard.
encode_refuses_nothing(item) == FALSE
\* encode: item.payload.len() + 1 > MAX is refused.
encode_refuses(item) == len(item.payload) + 1 > MAX

\* A length prefix that does not count the tag byte.
frame_length_untagged(payload_len) == payload_len
\* encode: item.payload.len() as u32 + 1, the value of the length prefix; after
\* the guard payload_len is below MAX, so the cast and the sum do not wrap.
frame_length(payload_len) == payload_len + 1

\* encode: dst after the length prefix, the tag and the payload are written.
encode(item, dst) ==
    extend_from_slice(
        put_u8(extend_from_slice(dst, to_be_bytes(frame_length(len(item.payload)))),
               item.tag),
        item.payload)

\* A decoder that knows no heartbeat.
never_heartbeat(length) == FALSE
\* decode: if length == 0, the frame is a heartbeat.
is_heartbeat(length) == length = 0

\* decode's results: Ok(None), Err(..) and Ok(Some(item)), each with src as the
\* call leaves it and the buffer size the call asked src.reserve to make room
\* for (0 when it did not call reserve).
DecodeNone(src) ==
    [result |-> "None", item |-> Message(Choke, <<>>), src |-> src, reserve |-> 0]
\* A decoder that drops the length prefix of the frame it refuses.
DecodeErrDrain(src, what) ==
    [result |-> what, item |-> Message(Choke, <<>>), src |-> advance(src, 4),
     reserve |-> 0]
DecodeErr(src, what) ==
    [result |-> what, item |-> Message(Choke, <<>>), src |-> src, reserve |-> 0]
\* A decoder that yields the tag and drops the payload.
DecodeSomeTagOnly(src, item) ==
    [result |-> "Some", item |-> Message(item.tag, <<>>), src |-> src,
     reserve |-> 0]
DecodeSome(src, item) ==
    [result |-> "Some", item |-> item, src |-> src, reserve |-> 0]
\* Ok(None) after src.reserve(additional): room for len(src) + additional bytes.
DecodeReserve(src, additional) ==
    [result |-> "None", item |-> Message(Choke, <<>>), src |-> src,
     reserve |-> len(src) + additional]

\* A decoder without the frame-size guard.
frame_never_too_large(length) == FALSE
\* decode: if length > MAX, the frame is refused.
frame_too_large(length) == length > MAX

\* A decoder that knows every tag byte.
tag_always_known(tag) == TRUE
\* decode: the arms 0..=8 of match src[4].
tag_known(tag) == tag \in MessageTags

RECURSIVE decode(_)
\* MessageFramer::decode
decode(src) ==
    IF len(src) < 4 THEN DecodeNone(src)
    ELSE LET length == from_be_bytes(slice(src, 0, 4))
         IN  IF is_heartbeat(length) THEN decode(advance(src, 4))
             ELSE IF len(src) < 5 THEN DecodeNone(src)
             ELSE IF frame_too_large(length) THEN DecodeErr(src, "TooLarge")
             ELSE IF len(src) < 4 + length
                  THEN DecodeReserve(src, 4 + length - len(src))
             ELSE IF ~tag_known(byte_at(src, 4))
                  THEN DecodeErr(src, "UnknownTag")
             ELSE DecodeSome(
                      advance(src, 4 + length),
                      Message(byte_at(src, 4),
                              IF len(src) > 5 THEN slice(src, 5, 4 + length)
                              ELSE <<>>))

\* Payloads of the messages given to the codec: empty, bytes that read as a
\* heartbeat or as a frame, the longest payload encode takes, and one byte more.
CodecPayloads ==
    {<<>>, <<<<0, 4>>>>, <<<<0, 3>>, <<1, 1>>, <<7, 1>>>>,
     <<<<255, MAX - 1>>>>, <<<<255, MAX>>>>}
CodecMessages == {Message(t, p) : t \in MessageTags, p \in CodecPayloads}

\* The messages of a stream of several.
StreamMessages ==
    {Message(Choke, <<>>), Message(Have, <<<<0, 4>>>>)}

\* The sequences of messages handed to encode: one message of any kind, or up
\* to MaxMsgs messages of a stream.
SendPlans ==
    {<<m>> : m \in CodecMessages}
        \cup UNION {[1..n -> StreamMessages] : n \in 0..MaxMsgs}

\* Byte strings a peer can write that no encode produces: a length prefix of
\* MAX + 1 with a Piece tag behind it; a heartbeat, a frame of two bytes with
\* the tag 9 and a Choke frame; and the first five bytes of a frame of length
\* MAX with the tag 9.
RawFrames ==
    {<<<<0, 1>>, <<1, 1>>, <<0, 1>>, <<1, 1>>, <<7, 1>>>>,
     <<<<0, 7>>, <<2, 1>>, <<9, 1>>, <<5, 1>>, <<0, 3>>, <<1, 1>>, <<0, 1>>>>,
     <<<<0, 1>>, <<1, 1>>, <<0, 2>>, <<9, 1>>>>}

\* What the sender encodes next to such a peer: nothing, a frame of length MAX,
\* a message encode refuses, or a Have.
RawPlans ==
    {<<>>, <<Message(Piece, <<<<255, MAX - 1>>>>)>>,
     <<Message(Piece, <<<<255, MAX>>>>)>>, <<Message(Have, <<<<0, 4>>>>)>>}

\* The sizes of the reads that move bytes of dst into src.
ReadSizes(dst) == {n \in {1, 4, 5, len(dst)} : 0 < n /\ n <= len(dst)}

\* ------------------------------------------------------------------ state
VARIABLES
    queue,              \* WorkQueue: the channel's buffered indices, head first
    enq_order,          \* history: rank of each queued index by time of enqueue
    receiver_lock,      \* WorkQueue.receiver mutex: its holder or NoWorker
    buffer,             \* the shared output buffer (block tokens)
    buffer_lock,        \* the output buffer's mutex: its holder or NoWorker
    assembled,          \* history: piece indices in the order they were appended
    pc,                 \* each worker's position
    mode,               \* which entry point a worker drives
    handshake,          \* result of exchange_handshakes
    am_choking,         \* PeerState.am_choking
    am_interested,      \* PeerState.am_interested
    peer_choking,       \* PeerState.peer_choking
    peer_interested,    \* PeerState.peer_interested
    last_choke,         \* history: tag of the last Choke/Unchoke received, or None
    bitfield,           \* ActivePeer.bitfield
    piece_index,        \* the claimed piece (None outside the loop body)
    blocks_to_download, \* pending block indices of the claimed piece
    all_blocks,         \* blocks received for the claimed piece
    block,              \* download_piece: the for loop's block counter
    in_flight,          \* per connection: requests written and not yet answered
    to_send,            \* codec: messages the sender has yet to encode
    sent,               \* codec history: messages encode accepted, in order
    refused,            \* codec history: messages encode refused
    keepalives,         \* codec history: number of keep-alive frames written
    dst,                \* codec: bytes written and not yet read by the receiver
    src,                \* codec: the receiver's read buffer
    readable,           \* codec: Framed has bytes decode has not yet looked at
    partial_reads,      \* codec: number of reads that left bytes unread
    decoded,            \* codec history: the items decode returned, in order
    decode_error,       \* codec: the error decode returned, or "none"
    wire,               \* codec history: every byte written, in order
    raw_writes,         \* codec: number of byte strings the peer wrote unframed
    reserved,           \* codec: the largest size decode asked src.reserve for
    info,               \* sizing: the descriptor get_piece_size is applied to
    total_length,       \* sizing history: the length the descriptor was made for
    piece_sizes,        \* sizing: what get_piece_size returned for index 0, 1, ...
    requests            \* sizing: the Requests built for the piece sized last

shared == <<queue, enq_order, receiver_lock, buffer, buffer_lock, assembled>>
local == <<pc, mode, handshake, am_choking, am_interested, peer_choking,
           peer_interested, last_choke, bitfield, piece_index,
           blocks_to_download, all_blocks, block, in_flight>>
session == <<shared, local>>
codec == <<to_send, sent, refused, keepalives, dst, src, readable, partial_reads,
           decoded, decode_error, wire, raw_writes, reserved>>
sizing == <<info, total_length, piece_sizes, requests>>
vars == <<session, codec, sizing>>

\* mpsc::channel(pieces.len())
Capacity == pieces_len
QueueValues == PieceIndices \cup {SENTINEL}

\* ------------------------------------------------------------- work queue
\* A channel that puts a sent value at its head.
EnqueueFront(q, i) == <<i>> \o q
\* A channel that takes every sent value twice.
EnqueueTwice(q, i) == Append(Append(q, i), i)
\* sender.send / try_send: the value goes to the tail of the channel.
Enqueue(q, i) == Append(q, i)
\* receiver.recv(): the value at the head and what stays in the channel.
RecvValue(q) == Head(q)
\* A channel whose recv leaves the value it yields in place.
RecvRestKeep(q) == q
RecvRest(q) == Tail(q)

\* History of enqueue times, kept by counting, not by position.
NoteEnqueue(ord, i) ==
    [ord EXCEPT ![i] = 1 + Cardinality({k \in QueueValues : ord[k] > 0})]
NoteDequeue(ord, i) ==
    [k \in QueueValues |->
        IF k = i THEN 0
        ELSE IF ord[k] > ord[i] THEN ord[k] - 1 ELSE ord[k]]

RECURSIVE LoadInitial(_, _)
\* WorkQueue::new: try_send of every initial piece.
LoadInitial(q, ps) ==
    IF ps = <<>> THEN q
    ELSE LoadInitial(IF Len(q) < Capacity THEN Enqueue(q, Head(ps)) ELSE q, Tail(ps))

InitialPieces == [p \in 1..pieces_len |-> p - 1]

\* The locals of the loop body go out of scope.
DropPiece(w) ==
    /\ piece_index' = [piece_index EXCEPT ![w] = None]
    /\ blocks_to_download' = [blocks_to_download EXCEPT ![w] = <<>>]
    /\ all_blocks' = [all_blocks EXCEPT ![w] = <<>>]

\* A loop that requests whatever the choke flag.
AfterLoopTestUngated(pending, choking) ==
    IF pending = <<>> THEN "finalize" ELSE "request"
\* while !blocks_to_download.is_empty() { if !peer_choking { request } read }:
\* where the session suspends next, given the pending blocks and the choke flag.
AfterLoopTest(pending, choking) ==
    IF pending = <<>> THEN "finalize"
    ELSE IF choking THEN "read" ELSE "request"

\* download_piece: let piece_hash = &t.pieces.0[piece_index] panics on an index
\* that is no piece; otherwise the for loop starts.
DownloadPieceEntry(i) == IF i \in PieceIndices THEN "dp_request" ELSE "panicked"

\* A connection's codec before anything is written, with the messages it is
\* going to be given.
CodecStart(plans) ==
    /\ to_send \in plans
    /\ sent = <<>>
    /\ refused = <<>>
    /\ keepalives = 0
    /\ dst = <<>>
    /\ src = <<>>
    /\ readable = FALSE
    /\ partial_reads = 0
    /\ decoded = <<>>
    /\ decode_error = "none"
    /\ wire = <<>>
    /\ raw_writes = 0
    /\ reserved = 0

\* The state after WorkQueue::new, the shared buffer's creation and
\* ActivePeer::new for every worker that connect_to_peer gave a connection;
\* modes gives the entry points a worker may drive.
\* PeerState::new()
PeerState_new ==
    [am_choking |-> TRUE, am_interested |-> FALSE,
     peer_choking |-> TRUE, peer_interested |-> FALSE]

SessionStart(modes, connected) ==
    /\ queue = LoadInitial(<<>>, InitialPieces)
    /\ enq_order = [k \in QueueValues |->
                        IF \E p \in 1..Len(InitialPieces) : InitialPieces[p] = k
                        THEN CHOOSE p \in 1..Len(InitialPieces) : InitialPieces[p] = k
                        ELSE 0]
    /\ receiver_lock = NoWorker
    /\ buffer = <<>>
    /\ buffer_lock = NoWorker
    /\ assembled = <<>>
    /\ mode \in [Workers -> modes]
    /\ pc = [w \in Workers |->
                IF w \notin connected THEN "unconnected"
                ELSE IF mode[w] = "session" THEN "handshake" ELSE "get"]
    /\ handshake = [w \in Workers |-> "none"]
    /\ am_choking = [w \in Workers |-> PeerState_new.am_choking]
    /\ am_interested = [w \in Workers |-> PeerState_new.am_interested]
    /\ peer_choking = [w \in Workers |-> PeerState_new.peer_choking]
    /\ peer_interested = [w \in Workers |-> PeerState_new.peer_interested]
    /\ last_choke = [w \in Workers |-> None]
    /\ bitfield = [w \in Workers |-> <<>>]
    /\ piece_index = [w \in Workers |-> None]
    /\ blocks_to_download = [w \in Workers |-> <<>>]
    /\ all_blocks = [w \in Workers |-> <<>>]
    /\ block = [w \in Workers |-> 0]
    /\ in_flight = [w \in Workers |-> <<>>]

\* The descriptors handed to get_piece_size: piece lengths around the block
\* size, one to MaxDescPieces pieces, a last piece of one byte, of a few
\* bytes, one byte short of full or full, in one file or split into two.
PieceLengths ==
    {1, BLOCK_MAX - 1, BLOCK_MAX, BLOCK_MAX + 1, 2 * BLOCK_MAX, 2 * BLOCK_MAX + TailLen}
LastLengths(P) == {last \in {1, TailLen, P - 1, P} : 1 <= last /\ last <= P}
KeysOf(L, P) ==
    {SingleFile(L)} \cup {MultiFile(<<a, L - a>>) : a \in {a \in {1, P} : a < L}}
Descriptors ==
    UNION {UNION {UNION {
        {[length |-> (n - 1) * P + last,
          info |-> [plength |-> P, pieces_len |-> n, keys |-> k]]
            : k \in KeysOf((n - 1) * P + last, P)}
        : last \in LastLengths(P)} : n \in 1..MaxDescPieces} : P \in PieceLengths}

\* The torrent file is parsed; get_piece_size has not been called.
SizingStart(descriptors) ==
    /\ \E d \in descriptors : info = d.info /\ total_length = d.length
    /\ piece_sizes = <<>>
    /\ requests = <<>>

\* The descriptor of the torrent the sessions download.
TorrentDescriptor == {[length |-> calculate_length, info |-> torrent]}

InitWith(modes, connected) ==
    /\ SessionStart(modes, connected)
    /\ CodecStart({<<>>})
    /\ SizingStart(TorrentDescriptor)

\* Every worker runs start_exchanging_messages.
Init == InitWith({"session"}, Workers)

\* One worker has a peer; connect_to_peer returned None for the others.
SessionInit == InitWith({"session"}, {1})

\* A worker runs start_exchanging_messages, or takes an index with get_piece
\* and calls download_piece on it.
InitDP == InitWith({"session", "download_piece"}, Workers)

\* The codec on its own: no worker has a connection.
CodecInit ==
    /\ SessionStart({"session"}, {})
    /\ CodecStart(SendPlans)
    /\ SizingStart(TorrentDescriptor)

\* The codec facing a peer that writes bytes of its own making.
RawInit ==
    /\ SessionStart({"session"}, {})
    /\ CodecStart(RawPlans)
    /\ SizingStart(TorrentDescriptor)

\* The size computations on their own, for every descriptor.
SizeInit ==
    /\ SessionStart({"session"}, {})
    /\ CodecStart({<<>>})
    /\ SizingStart(Descriptors)

\* ---------------------------------------------------------------- startup
\* A session that goes from the handshake straight to get_piece.
ExchangeHandshakesThenGet(w) ==
    /\ pc[w] = "handshake"
    /\ handshake' = [handshake EXCEPT ![w] = "unused"]
    /\ pc' = [pc EXCEPT ![w] = "get"]
    /\ UNCHANGED <<shared, mode, am_choking, peer_interested, am_interested,
                   peer_choking, last_choke, bitfield, piece_index,
                   blocks_to_download, all_blocks, block, in_flight>>
    /\ UNCHANGED <<codec, sizing>>

\* exchange_handshakes: its Result is bound to a local that is never read; the
\* model keeps it until the next statement has run.
ExchangeHandshakes(w) ==
    /\ pc[w] = "handshake"
    /\ \E r \in {"ok", "bad", "err"} : handshake' = [handshake EXCEPT ![w] = r]
    /\ pc' = [pc EXCEPT ![w] = "interested"]
    /\ UNCHANGED <<shared, mode, am_choking, peer_interested, am_interested,
                   peer_choking, last_choke, bitfield, piece_index,
                   blocks_to_download, all_blocks, block, in_flight>>
    /\ UNCHANGED <<codec, sizing>>

\* send_message(Interested, Vec::new()) succeeds; am_interested = true.
SendInterested(w) ==
    /\ pc[w] = "interested"
    /\ am_interested' = [am_interested EXCEPT ![w] = TRUE]
    /\ handshake' = [handshake EXCEPT ![w] = "unused"]
    /\ pc' = [pc EXCEPT ![w] = "get"]
    /\ UNCHANGED <<shared, mode, am_choking, peer_interested, peer_choking,
                   last_choke, bitfield, piece_index, blocks_to_download,
                   all_blocks, block, in_flight>>
    /\ UNCHANGED <<codec, sizing>>

\* send_message fails: .expect("should send intersted message") panics.
SendInterestedFails(w) ==
    /\ pc[w] = "interested"
    /\ handshake' = [handshake EXCEPT ![w] = "unused"]
    /\ pc' = [pc EXCEPT ![w] = "panicked"]
    /\ UNCHANGED <<shared, mode, am_choking, peer_interested, am_interested,
                   peer_choking, last_choke, bitfield, piece_index,
                   blocks_to_download, all_blocks, block, in_flight>>
    /\ UNCHANGED <<codec, sizing>>

\* -------------------------------------------------------------- get_piece
\* let mut receiver = self.receiver.lock().await
GetPieceLock(w) ==
    /\ pc[w] = "get"
    /\ receiver_lock = NoWorker
    /\ receiver_lock' = w
    /\ pc' = [pc EXCEPT ![w] = "recv"]
    /\ UNCHANGED <<queue, enq_order, buffer, buffer_lock, assembled, mode,
                   am_choking, peer_interested, handshake, am_interested,
                   peer_choking, last_choke, bitfield, piece_index,
                   blocks_to_download, all_blocks, block, in_flight>>
    /\ UNCHANGED <<codec, sizing>>

\* receiver.is_empty() under the lock.
QueueObservedEmpty == queue = <<>>

\* A get_piece that waits in recv() on an empty channel.
GetPieceWaits(w) == pc[w] = "recv" /\ queue # <<>> /\ UNCHANGED vars

\* if receiver.is_empty() { return None }: the while-let ends and the session returns.
GetPieceNone(w) ==
    /\ pc[w] = "recv"
    /\ receiver_lock = w
    /\ QueueObservedEmpty
    /\ receiver_lock' = NoWorker
    /\ pc' = [pc EXCEPT ![w] = "done"]
    /\ UNCHANGED <<queue, enq_order, buffer, buffer_lock, assembled, mode,
                   am_choking, peer_interested, handshake, am_interested,
                   peer_choking, last_choke, bitfield, piece_index,
                   blocks_to_download, all_blocks, block, in_flight>>
    /\ UNCHANGED <<codec, sizing>>

\* receiver.recv().await yields the head; the loop body starts on it.
GetPieceSome(w) ==
    /\ pc[w] = "recv"
    /\ receiver_lock = w
    /\ ~QueueObservedEmpty
    /\ LET i == RecvValue(queue)
           n == nblocks_of(get_piece_size(i))
       IN  /\ queue' = RecvRest(queue)
           /\ enq_order' = NoteDequeue(enq_order, i)
           /\ piece_index' = [piece_index EXCEPT ![w] = i]
           /\ blocks_to_download' =
                  [blocks_to_download EXCEPT ![w] = [j \in 1..n |-> j - 1]]
           /\ all_blocks' = [all_blocks EXCEPT ![w] = <<>>]
    /\ receiver_lock' = NoWorker
    /\ block' = [block EXCEPT ![w] = 0]
    /\ pc' = [pc EXCEPT ![w] =
                 IF mode[w] = "session"
                 THEN AfterLoopTest(blocks_to_download'[w], peer_choking[w])
                 ELSE DownloadPieceEntry(piece_index'[w])]
    /\ UNCHANGED <<buffer, buffer_lock, assembled, mode, am_choking,
                   peer_interested, handshake, am_interested, peer_choking,
                   last_choke, bitfield, in_flight>>
    /\ UNCHANGED <<codec, sizing>>

\* ----------------------------------------------------------- message loop

\* pop_front, send_block_request returns Ok(()).
SendBlockRequest(w) ==
    /\ pc[w] = "request"
    /\ blocks_to_download' =
           [blocks_to_download EXCEPT ![w] = Tail(blocks_to_download[w])]
    /\ pc' = [pc EXCEPT ![w] = "read"]
    /\ UNCHANGED <<shared, mode, am_choking, peer_interested, handshake,
                   am_interested, peer_choking, last_choke, bitfield,
                   piece_index, all_blocks, block>>
    /\ in_flight' = [in_flight EXCEPT
           ![w] = Append(@, RequestFor(piece_index[w], Head(blocks_to_download[w])))]
    /\ UNCHANGED <<codec, sizing>>

\* A failed send that forgets the block it popped.
SendBlockRequestFailsDrops(w) ==
    /\ pc[w] = "request"
    /\ blocks_to_download' =
           [blocks_to_download EXCEPT ![w] = Tail(blocks_to_download[w])]
    /\ pc' = [pc EXCEPT ![w] = "read"]
    /\ UNCHANGED <<shared, mode, am_choking, peer_interested, handshake,
                   am_interested, peer_choking, last_choke, bitfield,
                   piece_index, all_blocks, block, in_flight>>
    /\ UNCHANGED <<codec, sizing>>

\* pop_front, send_block_request returns Err: push_back(block_index).
SendBlockRequestFails(w) ==
    /\ pc[w] = "request"
    /\ blocks_to_download' =
           [blocks_to_download EXCEPT
               ![w] = Append(Tail(blocks_to_download[w]), Head(blocks_to_download[w]))]
    /\ pc' = [pc EXCEPT ![w] = "read"]
    /\ UNCHANGED <<shared, mode, am_choking, peer_interested, handshake,
                   am_interested, peer_choking, last_choke, bitfield,
                   piece_index, all_blocks, block, in_flight>>
    /\ UNCHANGED <<codec, sizing>>

\* connection.next() yields None: .expect("recieve message from peer") panics.
StreamEnds(w) ==
    /\ pc[w] = "read"
    /\ pc' = [pc EXCEPT ![w] = "panicked"]
    /\ DropPiece(w)
    /\ UNCHANGED <<shared, mode, am_choking, peer_interested, handshake,
                   am_interested, peer_choking, last_choke, bitfield, block,
                   in_flight>>
    /\ UNCHANGED <<codec, sizing>>

\* connection.next() yields Some(Err): println and break.
ReadError(w) ==
    /\ pc[w] = "read"
    /\ MayDelay(in_flight[w])
    /\ IF blocks_to_download[w] = <<>>
       THEN /\ pc' = [pc EXCEPT ![w] = "finalize"]
            /\ UNCHANGED <<piece_index, blocks_to_download, all_blocks>>
       ELSE /\ pc' = [pc EXCEPT ![w] = "get"]
            /\ DropPiece(w)
    /\ UNCHANGED <<shared, mode, am_choking, peer_interested, handshake,
                   am_interested, peer_choking, last_choke, bitfield, block,
                   in_flight>>
    /\ UNCHANGED <<codec, sizing>>

\* A dispatch whose Unchoke arm is lost on the way.
DispatchChokingSticky(choking, msg) ==
    IF msg.tag = Choke THEN TRUE ELSE choking
\* match message.tag { ... }: the session's state after the message.
DispatchChoking(choking, msg) ==
    IF msg.tag = Choke THEN TRUE
    ELSE IF msg.tag = Unchoke THEN FALSE
    ELSE choking
\* The tag of the last Choke or Unchoke message the connection delivered.
NoteChoke(last, msg) == IF msg.tag \in {Choke, Unchoke} THEN msg.tag ELSE last
\* A dispatch that takes the payload of a Have for a bitfield as well.
DispatchBitfieldOrHave(bf, msg) ==
    IF msg.tag \in {Bitfield, Have} THEN msg.payload ELSE bf
DispatchBitfield(bf, msg) == IF msg.tag = Bitfield THEN msg.payload ELSE bf
DispatchBlocks(blocks, msg) ==
    IF msg.tag = Piece THEN Append(blocks, ref_from_bytes(msg.payload).block)
    ELSE blocks

\* connection.next() yields Some(Ok(message)): dispatch, then the loop test.
ReceiveMessage(w, msg) ==
    /\ pc[w] = "read"
    /\ ~(msg.tag = Piece /\ ref_is_none(msg.payload))
    /\ peer_choking' = [peer_choking EXCEPT ![w] = DispatchChoking(peer_choking[w], msg)]
    /\ last_choke' = [last_choke EXCEPT ![w] = NoteChoke(@, msg)]
    /\ bitfield' = [bitfield EXCEPT ![w] = DispatchBitfield(bitfield[w], msg)]
    /\ all_blocks' = [all_blocks EXCEPT ![w] = DispatchBlocks(all_blocks[w], msg)]
    /\ pc' = [pc EXCEPT ![w] = AfterLoopTest(blocks_to_download[w], peer_choking'[w])]
    /\ UNCHANGED <<shared, mode, am_choking, peer_interested, handshake,
                   am_interested, piece_index, blocks_to_download, block>>
    /\ in_flight' = [in_flight EXCEPT ![w] = Answered(@, msg)]
    /\ UNCHANGED <<codec, sizing>>

\* A Piece message shorter than its header: ref_from_bytes(..).expect panics.
ReceiveShortPiece(w, msg) ==
    /\ pc[w] = "read"
    /\ msg.tag = Piece
    /\ ref_is_none(msg.payload)
    /\ pc' = [pc EXCEPT ![w] = "panicked"]
    /\ DropPiece(w)
    /\ UNCHANGED <<shared, mode, am_choking, peer_interested, handshake,
                   am_interested, peer_choking, last_choke, bitfield, block,
                   in_flight>>
    /\ UNCHANGED <<codec, sizing>>

\* ----------------------------------------------------------- finalization
\* A finalization that keeps the blocks whatever the digest.
AfterHashCheckKeep(blocks, matches) == blocks
\* if hash != *piece_hash { ...; all_blocks = Vec::new() }
AfterHashCheck(blocks, matches) == IF matches THEN blocks ELSE <<>>

\* pieces.0[piece_index] with an index that is no piece: the index panics.
FinalizeOutOfBounds(w) ==
    /\ pc[w] = "finalize"
    /\ piece_index[w] \notin PieceIndices
    /\ pc' = [pc EXCEPT ![w] = "panicked"]
    /\ DropPiece(w)
    /\ UNCHANGED <<shared, mode, am_choking, peer_interested, handshake,
                   am_interested, peer_choking, last_choke, bitfield, block,
                   in_flight>>
    /\ UNCHANGED <<codec, sizing>>

\* The hash differs: return_piece(piece_index), nothing is appended.
FinalizeMismatch(w) ==
    /\ pc[w] = "finalize"
    /\ piece_index[w] \in PieceIndices
    /\ Sha1(all_blocks[w]) # piece_hash(piece_index[w])
    /\ Len(queue) < Capacity
    /\ queue' = Enqueue(queue, piece_index[w])
    /\ enq_order' = NoteEnqueue(enq_order, piece_index[w])
    /\ LET kept == AfterHashCheck(all_blocks[w], FALSE)
       IN  IF kept # <<>>
           THEN /\ buffer_lock = NoWorker
                /\ buffer' = buffer \o kept
                /\ assembled' = Append(assembled, piece_index[w])
           ELSE UNCHANGED <<buffer, assembled>>
    /\ pc' = [pc EXCEPT ![w] = "get"]
    /\ DropPiece(w)
    /\ UNCHANGED <<receiver_lock, buffer_lock, mode, am_choking,
                   peer_interested, handshake, am_interested, peer_choking,
                   last_choke, bitfield, block, in_flight>>
    /\ UNCHANGED <<codec, sizing>>

\* A finalization that appends a verified piece and puts its index back into
\* the queue as well.
FinalizeMatchRequeues(w) ==
    /\ pc[w] = "finalize"
    /\ piece_index[w] \in PieceIndices
    /\ Sha1(all_blocks[w]) = piece_hash(piece_index[w])
    /\ buffer_lock = NoWorker
    /\ Len(queue) < Capacity
    /\ queue' = Enqueue(queue, piece_index[w])
    /\ enq_order' = NoteEnqueue(enq_order, piece_index[w])
    /\ buffer' = buffer \o all_blocks[w]
    /\ assembled' = Append(assembled, piece_index[w])
    /\ pc' = [pc EXCEPT ![w] = "get"]
    /\ DropPiece(w)
    /\ UNCHANGED <<receiver_lock, buffer_lock, mode, am_choking,
                   peer_interested, handshake, am_interested, peer_choking,
                   last_choke, bitfield, block, in_flight>>
    /\ UNCHANGED <<codec, sizing>>

\* The hash matches: buffer.lock().await; buffer.extend(all_blocks).
FinalizeMatch(w) ==
    /\ pc[w] = "finalize"
    /\ piece_index[w] \in PieceIndices
    /\ Sha1(all_blocks[w]) = piece_hash(piece_index[w])
    /\ LET kept == AfterHashCheck(all_blocks[w], TRUE)
       IN  IF kept # <<>>
           THEN /\ buffer_lock = NoWorker
                /\ buffer' = buffer \o kept
                /\ assembled' = Append(assembled, piece_index[w])
           ELSE UNCHANGED <<buffer, assembled>>
    /\ pc' = [pc EXCEPT ![w] = "get"]
    /\ DropPiece(w)
    /\ UNCHANGED <<queue, enq_order, receiver_lock, buffer_lock, mode,
                   am_choking, peer_interested, handshake, am_interested,
                   peer_choking, last_choke, bitfield, block, in_flight>>
    /\ UNCHANGED <<codec, sizing>>

\* --------------------------------------------------------- download_piece
\* for block in 0..nblocks: what follows the block just received.
AfterBlock(nblocks, blk) == IF blk < nblocks THEN "dp_request" ELSE "dp_finalize"

\* connection.send(Request) returns Ok.
DpSendRequest(w) ==
    /\ pc[w] = "dp_request"
    /\ pc' = [pc EXCEPT ![w] = "dp_read"]
    /\ UNCHANGED <<shared, mode, am_choking, peer_interested, handshake,
                   am_interested, peer_choking, last_choke, bitfield,
                   piece_index, blocks_to_download, all_blocks, block>>
    /\ in_flight' = [in_flight EXCEPT
           ![w] = Append(@, RequestFor(piece_index[w], block[w]))]
    /\ UNCHANGED <<codec, sizing>>

\* connection.send(Request) fails: `?` returns the error to the caller.
DpSendRequestFails(w) ==
    /\ pc[w] = "dp_request"
    /\ pc' = [pc EXCEPT ![w] = "done"]
    /\ DropPiece(w)
    /\ UNCHANGED <<shared, mode, am_choking, peer_interested, handshake,
                   am_interested, peer_choking, last_choke, bitfield, block,
                   in_flight>>
    /\ UNCHANGED <<codec, sizing>>

\* connection.next() yields None: .expect("peer always sends a piece") panics.
DpStreamEnds(w) ==
    /\ pc[w] = "dp_read"
    /\ pc' = [pc EXCEPT ![w] = "panicked"]
    /\ DropPiece(w)
    /\ UNCHANGED <<shared, mode, am_choking, peer_interested, handshake,
                   am_interested, peer_choking, last_choke, bitfield, block,
                   in_flight>>
    /\ UNCHANGED <<codec, sizing>>

\* connection.next() yields Some(Err): `?` returns the error to the caller.
DpReadError(w) ==
    /\ pc[w] = "dp_read"
    /\ MayDelay(in_flight[w])
    /\ pc' = [pc EXCEPT ![w] = "done"]
    /\ DropPiece(w)
    /\ UNCHANGED <<shared, mode, am_choking, peer_interested, handshake,
                   am_interested, peer_choking, last_choke, bitfield, block,
                   in_flight>>
    /\ UNCHANGED <<codec, sizing>>

\* Any message is read as a Piece: all_blocks.extend(piece.block()).
DpReceive(w, msg) ==
    /\ pc[w] = "dp_read"
    /\ ~ref_is_none(msg.payload)
    /\ all_blocks' =
           [all_blocks EXCEPT ![w] = Append(@, ref_from_bytes(msg.payload).block)]
    /\ block' = [block EXCEPT ![w] = @ + 1]
    /\ pc' = [pc EXCEPT ![w] =
                 AfterBlock(nblocks_of(get_piece_size(piece_index[w])), block'[w])]
    /\ last_choke' = [last_choke EXCEPT ![w] = NoteChoke(@, msg)]
    /\ UNCHANGED <<shared, mode, am_choking, peer_interested, handshake,
                   am_interested, peer_choking, bitfield,
                   piece_index, blocks_to_download>>
    /\ in_flight' = [in_flight EXCEPT ![w] = Answered(@, msg)]
    /\ UNCHANGED <<codec, sizing>>

\* A payload shorter than the Piece header: ref_from_bytes(..).expect panics.
DpReceiveShort(w, msg) ==
    /\ pc[w] = "dp_read"
    /\ ref_is_none(msg.payload)
    /\ pc' = [pc EXCEPT ![w] = "panicked"]
    /\ DropPiece(w)
    /\ last_choke' = [last_choke EXCEPT ![w] = NoteChoke(@, msg)]
    /\ UNCHANGED <<shared, mode, am_choking, peer_interested, handshake,
                   am_interested, peer_choking, bitfield, block,
                   in_flight>>
    /\ UNCHANGED <<codec, sizing>>

\* hash != *piece_hash: return_piece(piece_index); return Err.
DpFinalizeMismatch(w) ==
    /\ pc[w] = "dp_finalize"
    /\ Sha1(all_blocks[w]) # piece_hash(piece_index[w])
    /\ Len(queue) < Capacity
    /\ queue' = Enqueue(queue, piece_index[w])
    /\ enq_order' = NoteEnqueue(enq_order, piece_index[w])
    /\ pc' = [pc EXCEPT ![w] = "done"]
    /\ DropPiece(w)
    /\ UNCHANGED <<receiver_lock, buffer, buffer_lock, assembled, mode,
                   am_choking, peer_interested, handshake, am_interested,
                   peer_choking, last_choke, bitfield, block, in_flight>>
    /\ UNCHANGED <<codec, sizing>>

\* The hash matches: buffer.lock().await; buffer.extend(all_blocks); on the last
\* piece the guard is still held when sender.send(999999) is awaited.
DpFinalizeMatch(w) ==
    /\ pc[w] = "dp_finalize"
    /\ Sha1(all_blocks[w]) = piece_hash(piece_index[w])
    /\ buffer_lock = NoWorker
    /\ buffer' = buffer \o all_blocks[w]
    /\ assembled' = Append(assembled, piece_index[w])
    /\ IF piece_index[w] = pieces_len - 1
       THEN /\ buffer_lock' = w
            /\ pc' = [pc EXCEPT ![w] = "dp_sentinel"]
       ELSE /\ buffer_lock' = NoWorker
            /\ pc' = [pc EXCEPT ![w] = "done"]
    /\ DropPiece(w)
    /\ UNCHANGED <<queue, enq_order, receiver_lock, mode, am_choking,
                   peer_interested, handshake, am_interested, peer_choking,
                   last_choke, bitfield, block, in_flight>>
    /\ UNCHANGED <<codec, sizing>>

\* work_queue.sender.send(999999).await.unwrap(); Ok(()) drops the guard.
DpSendSentinel(w) ==
    /\ pc[w] = "dp_sentinel"
    /\ Len(queue) < Capacity
    /\ queue' = Enqueue(queue, SENTINEL)
    /\ enq_order' = NoteEnqueue(enq_order, SENTINEL)
    /\ buffer_lock' = NoWorker
    /\ pc' = [pc EXCEPT ![w] = "done"]
    /\ UNCHANGED <<receiver_lock, buffer, assembled, mode, am_choking,
                   peer_interested, handshake, am_interested, peer_choking,
                   last_choke, bitfield, piece_index, blocks_to_download,
                   all_blocks, block, in_flight>>
    /\ UNCHANGED <<codec, sizing>>

\* ------------------------------------------------------------ codec steps
\* Framed::send(item): encode returns Ok, the frame is in the write buffer.
EncodeOk ==
    /\ to_send # <<>>
    /\ ~encode_refuses(Head(to_send))
    /\ dst' = encode(Head(to_send), dst)
    /\ wire' = encode(Head(to_send), wire)
    /\ sent' = Append(sent, Head(to_send))
    /\ to_send' = Tail(to_send)
    /\ UNCHANGED <<refused, keepalives, src, readable, partial_reads, decoded,
                   decode_error, raw_writes, reserved>>
    /\ UNCHANGED <<session, sizing>>

\* Framed::send(item): encode returns Err, nothing is written.
EncodeRefused ==
    /\ to_send # <<>>
    /\ encode_refuses(Head(to_send))
    /\ refused' = Append(refused, Head(to_send))
    /\ to_send' = Tail(to_send)
    /\ UNCHANGED <<sent, keepalives, dst, src, readable, partial_reads, decoded,
                   decode_error, wire, raw_writes, reserved>>
    /\ UNCHANGED <<session, sizing>>

\* The sender writes a keep-alive: a length prefix of zero and nothing else.
KeepAlive ==
    /\ keepalives < MaxKeepAlives
    /\ dst' = extend_from_slice(dst, to_be_bytes(0))
    /\ wire' = extend_from_slice(wire, to_be_bytes(0))
    /\ keepalives' = keepalives + 1
    /\ UNCHANGED <<to_send, sent, refused, src, readable, partial_reads, decoded,
                   decode_error, raw_writes, reserved>>
    /\ UNCHANGED <<session, sizing>>

\* The peer writes bytes that no encode produced.
WriteRaw(bytes) ==
    /\ raw_writes < MaxRawWrites
    /\ dst' = extend_from_slice(dst, bytes)
    /\ wire' = extend_from_slice(wire, bytes)
    /\ raw_writes' = raw_writes + 1
    /\ UNCHANGED <<to_send, sent, refused, keepalives, src, readable,
                   partial_reads, decoded, decode_error, reserved>>
    /\ UNCHANGED <<session, sizing>>

\* Framed reads n bytes of the stream into its buffer.
Read(n) ==
    /\ decode_error = "none"
    /\ n \in ReadSizes(dst)
    /\ n = len(dst) \/ partial_reads < MaxPartialReads
    /\ src' = extend_from_slice(src, truncate(dst, n))
    /\ dst' = advance(dst, n)
    /\ readable' = TRUE
    /\ partial_reads' = IF n < len(dst) THEN partial_reads + 1 ELSE partial_reads
    /\ UNCHANGED <<to_send, sent, refused, keepalives, decoded, decode_error, wire,
                   raw_writes, reserved>>
    /\ UNCHANGED <<session, sizing>>

\* Framed calls decode on its buffer: an item is yielded and decode is called
\* again, or Ok(None) sends Framed back to reading, or the error is yielded.
Decode ==
    /\ readable
    /\ LET out == decode(src)
       IN  /\ src' = out.src
           /\ decoded' = IF out.result = "Some" THEN Append(decoded, out.item)
                         ELSE decoded
           /\ readable' = (out.result = "Some")
           /\ decode_error' = IF out.result \in {"Some", "None"} THEN "none"
                              ELSE out.result
           /\ reserved' = IF out.reserve > reserved THEN out.reserve ELSE reserved
    /\ UNCHANGED <<to_send, sent, refused, keepalives, dst, partial_reads, wire,
                   raw_writes>>
    /\ UNCHANGED <<session, sizing>>

\* ------------------------------------------------------------------- spec
SessionStep(w) ==
    \/ ExchangeHandshakes(w)
    \/ SendInterested(w)
    \/ SendInterestedFails(w)
    \/ GetPieceLock(w)
    \/ GetPieceNone(w)
    \/ GetPieceSome(w)
    \/ SendBlockRequest(w)
    \/ StreamEnds(w)
    \/ ReadError(w)
    \/ \E msg \in PoliteMessages(in_flight[w]) : ReceiveMessage(w, msg)
    \/ FinalizeMismatch(w)
    \/ FinalizeMatch(w)

\* What a peer and its connection can do beyond SessionStep.
SessionExtraStep(w) ==
    \/ SendBlockRequestFails(w)
    \/ \E msg \in PeerMessages(in_flight[w]) \ PoliteMessages(in_flight[w]) :
           ReceiveMessage(w, msg)
    \/ \E msg \in PeerMessages(in_flight[w]) : ReceiveShortPiece(w, msg)

DownloadPieceStep(w) ==
    \/ DpSendRequest(w)
    \/ DpSendRequestFails(w)
    \/ DpStreamEnds(w)
    \/ DpReadError(w)
    \/ \E msg \in PeerMessages(in_flight[w]) : DpReceive(w, msg)
    \/ \E msg \in PeerMessages(in_flight[w]) : DpReceiveShort(w, msg)
    \/ DpFinalizeMismatch(w)
    \/ DpFinalizeMatch(w)
    \/ DpSendSentinel(w)

Next == \E w \in Workers : SessionStep(w)

SessionNext == \E w \in Workers : SessionStep(w) \/ SessionExtraStep(w)

NextDP ==
    \E w \in Workers :
        SessionStep(w) \/ FinalizeOutOfBounds(w) \/ DownloadPieceStep(w)

\* The statements of start_exchanging_messages that need nothing from the peer
\* and do not fail.
SessionOwnStep(w) ==
    \/ ExchangeHandshakes(w)
    \/ SendInterested(w)
    \/ GetPieceLock(w)
    \/ GetPieceNone(w)
    \/ GetPieceSome(w)
    \/ SendBlockRequest(w)
    \/ FinalizeMismatch(w)
    \/ FinalizeMatch(w)

\* The peer answers its oldest unanswered request with the right block.
PeerAnswers(w) ==
    /\ in_flight[w] # <<>>
    /\ ReceiveMessage(w, CorrectAnswer(Head(in_flight[w])))

\* The peer unchokes a session it is choking.
PeerUnchokes(w) ==
    /\ peer_choking[w]
    /\ ReceiveMessage(w, Message(Unchoke, <<>>))

\* The peer sends another message of its own.
PeerExtra(w) ==
    /\ MayDelay(in_flight[w])
    /\ \E msg \in CooperativeExtras : ReceiveMessage(w, msg)

LiveNext ==
    \E w \in Workers :
        SessionOwnStep(w) \/ PeerAnswers(w) \/ PeerUnchokes(w) \/ PeerExtra(w)

\* The runtime polls a task that can run; the peer unchokes a choked session
\* and answers a request that is waiting for its answer.
LiveFairness ==
    \A w \in Workers :
        /\ WF_vars(SessionOwnStep(w))
        /\ WF_vars(PeerAnswers(w))
        /\ WF_vars(PeerUnchokes(w))

\* let piece_size = ActivePeer::get_piece_size(piece_index, info), for the
\* index after the one sized last, once that one has all its Requests.
SizePiece ==
    /\ Len(piece_sizes) < info.pieces_len
    /\ IF piece_sizes = <<>> THEN TRUE
       ELSE Len(requests) = nblocks_of(piece_sizes[Len(piece_sizes)])
    /\ piece_sizes' = Append(piece_sizes, get_piece_size_of(Len(piece_sizes), info))
    /\ requests' = <<>>
    /\ UNCHANGED <<info, total_length>>
    /\ UNCHANGED <<session, codec>>

\* Request::new(piece_index, block * BLOCK_MAX, block_size) for the next
\* block of the piece sized last.
BuildRequest ==
    /\ piece_sizes # <<>>
    /\ Len(requests) < nblocks_of(piece_sizes[Len(piece_sizes)])
    /\ requests' = Append(requests,
           Request_new(Len(piece_sizes) - 1, piece_sizes[Len(piece_sizes)],
                       Len(requests)))
    /\ UNCHANGED <<info, total_length, piece_sizes>>
    /\ UNCHANGED <<session, codec>>

SizeNext == SizePiece \/ BuildRequest

CodecNext ==
    \/ EncodeOk
    \/ EncodeRefused
    \/ KeepAlive
    \/ \E n \in ReadSizes(dst) : Read(n)
    \/ Decode

RawNext ==
    \/ EncodeOk
    \/ EncodeRefused
    \/ \E bytes \in RawFrames : WriteRaw(bytes)
    \/ \E n \in ReadSizes(dst) : Read(n)
    \/ Decode

\* Worker sessions sharing the queue and the buffer.
Spec == Init /\ [][Next]_vars

\* One session, with everything its peer and its connection can do.
SessionSpec == SessionInit /\ [][SessionNext]_vars

\* Workers that drive start_exchanging_messages or download_piece.
SpecDP == InitDP /\ [][NextDP]_vars

\* One session and a peer that unchokes it and answers every request with the
\* block asked for, with every task and the peer making progress.
LiveSpec == SessionInit /\ [][LiveNext]_vars /\ LiveFairness

\* get_piece_size and the block partition over the descriptors.
SizeSpec == SizeInit /\ [][SizeNext]_vars

\* A sender's encoder and keep-alives feeding a receiver's decoder.
CodecSpec == CodecInit /\ [][CodecNext]_vars

\* The codec with a peer that also writes bytes of its own making.
RawSpec == RawInit /\ [][RawNext]_vars

\* ----------------------------------------------------------------- claims
Holders(k) == {w \in Workers : piece_index[w] = k}
\* The source file: the pieces in ascending index order.
SourceFile == Concat([p \in 1..pieces_len |-> PieceData(p - 1)])
AllDelivered == \A i \in PieceIndices : i \in Range(assembled)
\* Every session that was started has returned.
AllEnded == \A w \in Workers : pc[w] \in {"done", "unconnected"}

\* C1: once every piece index has been delivered to the output buffer, the
\* buffer equals the concatenation of the pieces in ascending index order.
C1_AssemblerOrdering == AllDelivered => buffer = SourceFile

\* C2: once all sessions have ended and the queue is empty, every piece index
\* has exactly one payload in the buffer and the buffer is L bytes long.
C2_PieceTotality ==
    (AllEnded /\ queue = <<>>) =>
        /\ \A i \in PieceIndices : Count(assembled, i) = 1
        /\ SumBytes(buffer) = calculate_length

\* C3: a read error in the message loop while piece i is claimed puts i back
\* into the work queue before the session moves on.
C3_ReturnOnReadError ==
    [][\A w \in Workers :
          (ReadError(w) /\ pc'[w] # "finalize") =>
              Count(queue', piece_index[w]) > 0]_vars

\* C4: when the peer's stream ends after some but not all blocks of piece i
\* were received, i is back in the work queue.
C4_ReturnOnDisconnect ==
    [][\A w \in Workers :
          (StreamEnds(w)
              /\ 0 < Len(all_blocks[w])
              /\ Len(all_blocks[w]) < nblocks_of(get_piece_size(piece_index[w]))) =>
              Count(queue', piece_index[w]) > 0]_vars

\* C5: an index is never in two hands: the workers holding it and its entries
\* in the queue are at most one in all.
C5_QueueSafety ==
    \A k \in QueueValues : Cardinality(Holders(k)) + Count(queue, k) <= 1
C5_Witness ==
    /\ piece_index[1] = 1
    /\ piece_index[2] = 0
    /\ all_blocks[1] # <<>>

\* C6: finalization with a digest mismatch leaves the buffer unchanged and
\* enqueues i once; with a match it appends the bytes and does not enqueue i.
C6_HashMismatch ==
    [][\A w \in Workers :
          (pc[w] \in {"finalize", "dp_finalize"} /\ pc'[w] # pc[w]
              /\ piece_index[w] \in PieceIndices) =>
              IF Sha1(all_blocks[w]) # piece_hash(piece_index[w])
              THEN /\ buffer' = buffer
                   /\ Count(queue', piece_index[w]) = Count(queue, piece_index[w]) + 1
              ELSE /\ buffer' = buffer \o all_blocks[w]
                   /\ Count(queue', piece_index[w]) = Count(queue, piece_index[w])]_vars
C6_Witness ==
    /\ assembled = <<1>>
    /\ buffer = PieceData(1)
    /\ queue = <<0>>

\* C7: a worker inside get_piece always completes it: on an empty queue it
\* returns None (also while other workers hold pieces), otherwise it takes the
\* head; the receiver lock is only held inside get_piece.
C7_GetPieceNeverBlocks ==
    \A w \in Workers :
        /\ receiver_lock = w => pc[w] = "recv"
        /\ (pc[w] = "recv" /\ queue = <<>>) => ENABLED GetPieceNone(w)
        /\ (pc[w] = "recv" /\ queue # <<>>) => ENABLED GetPieceSome(w)
C7_Witness ==
    /\ pc[1] = "done"
    /\ mode[1] = "session"
    /\ piece_index[2] = 0
    /\ queue = <<>>

\* C8: the queue holds its indices in the order they were enqueued, so the
\* index get_piece takes is the one enqueued first.
C8_Fifo == \A p \in 1..Len(queue) : enq_order[queue[p]] = p
C8_Witness ==
    /\ queue = <<1, 0>>
    /\ enq_order[0] = 2
    /\ \A w \in Workers : piece_index[w] = None

IsPrefix(a, b) == Len(a) <= Len(b) /\ SubSeq(b, 1, Len(a)) = a
\* Everything written has been read and decode has answered Ok(None).
Drained == to_send = <<>> /\ dst = <<>> /\ ~readable

\* C9: encode refuses only a payload with |payload| + 1 > MAX, and the bytes
\* it writes for one message decode to exactly that message, tag and payload,
\* with nothing left in the buffer.
C9_RoundTrip ==
    /\ \A p \in 1..Len(refused) : len(refused[p].payload) + 1 > MAX
    /\ (Len(sent) = 1 /\ keepalives = 0 /\ Drained) =>
           /\ decoded = sent
           /\ src = <<>>
           /\ decode_error = "none"
C9_Witness ==
    /\ sent = <<Message(Cancel, <<<<255, MAX - 1>>>>)>>
    /\ keepalives = 0
    /\ Drained
    /\ decoded = sent

\* C10: decode never yields a keep-alive: what it has yielded is a prefix of
\* the messages sent, in their order, and once the stream is drained it is all
\* of them and every keep-alive's 4 bytes are gone from the buffer.
C10_HeartbeatTransparency ==
    /\ IsPrefix(decoded, sent)
    /\ decode_error = "none"
    /\ Drained => (decoded = sent /\ src = <<>>)
C10_Witness ==
    /\ Drained
    /\ wire = encode(Message(Have, <<<<0, 4>>>>),
                     extend_from_slice(encode(Message(Choke, <<>>), to_be_bytes(0)),
                                       to_be_bytes(0)))
    /\ decoded = <<Message(Choke, <<>>), Message(Have, <<<<0, 4>>>>)>>
    /\ partial_reads = MaxPartialReads

RECURSIVE SkipHeartbeats(_)
\* decode: the buffer once the heartbeats at its head are discarded.
SkipHeartbeats(buf) ==
    IF len(buf) >= 4 /\ from_be_bytes(slice(buf, 0, 4)) = 0
    THEN SkipHeartbeats(advance(buf, 4))
    ELSE buf

\* decode: the value of the length prefix at the head of buf.
FrameLength(buf) == from_be_bytes(slice(buf, 0, 4))

\* The frame at the head of src once the heartbeats are discarded.
Pending == SkipHeartbeats(src)

\* C11 (as amended): when the buffer holds the length prefix of a frame and at
\* least one byte after it and the length is above MAX, decode fails; while
\* such a prefix is at the head of the buffer decode yields no message and
\* reserves nothing; decode never asks reserve for room beyond a frame of
\* length MAX; a complete frame of length exactly MAX with a known tag is
\* decoded.
C11_FrameBound ==
    /\ (len(Pending) >= 5 /\ FrameLength(Pending) > MAX)
           => decode(src).result = "TooLarge"
    /\ (len(Pending) >= 4 /\ FrameLength(Pending) > MAX)
           => decode(src).result # "Some" /\ decode(src).reserve = 0
    /\ reserved <= 4 + MAX
    /\ (len(Pending) >= 4 + MAX /\ FrameLength(Pending) = MAX
            /\ byte_at(Pending, 4) \in MessageTags)
           => decode(src).result = "Some"

\* C11 as stated: decode fails whenever the buffer holds the 4-byte length
\* prefix of a frame whose length is above MAX.
C11_FrameBoundAtPrefix ==
    (len(Pending) >= 4 /\ FrameLength(Pending) > MAX)
        => decode(src).result = "TooLarge"

\* A frame of length MAX was decoded after decode reserved room for it, and a
\* later frame of length MAX + 1 made decode fail.
C11_Witness ==
    /\ decode_error = "TooLarge"
    /\ len(Pending) >= 5 /\ FrameLength(Pending) = MAX + 1
    /\ reserved = 4 + MAX
    /\ \E i \in 1..Len(decoded) : len(decoded[i].payload) = MAX - 1

\* C12 (as amended): when the buffer holds a whole frame whose tag byte is not
\* one of 0..8, decode fails; while the tag byte of such a frame is buffered
\* decode yields no message, and no message decode ever yielded carries such
\* a tag.
C12_UnknownTag ==
    /\ (len(Pending) >= 5 /\ byte_at(Pending, 4) \notin MessageTags)
           => decode(src).result # "Some"
    /\ (len(Pending) >= 5 /\ byte_at(Pending, 4) \notin MessageTags
            /\ FrameLength(Pending) <= MAX
            /\ len(Pending) >= 4 + FrameLength(Pending))
           => decode(src).result = "UnknownTag"
    /\ \A i \in 1..Len(decoded) : decoded[i].tag \in MessageTags

\* C12 as stated: decode fails whenever the tag byte of a frame is buffered
\* and is not one of 0..8.
C12_UnknownTagAtTagByte ==
    (len(Pending) >= 5 /\ byte_at(Pending, 4) \notin MessageTags)
        => decode(src).result \in {"TooLarge", "UnknownTag"}

\* After yielding one message, decode failed on a whole frame with the tag 9
\* that has a Choke frame behind it in the buffer.
C12_Witness ==
    /\ decode_error = "UnknownTag"
    /\ Len(decoded) = 1
    /\ byte_at(Pending, 4) = 9
    /\ len(Pending) > 4 + FrameLength(Pending)

\* C13: a call of decode that yields a message finds the whole frame, 4 +
\* length bytes, in the buffer, removes exactly those bytes and leaves the
\* bytes behind them, and the message has the frame's tag and, as payload, the
\* length - 1 bytes behind the tag; a call that answers that more bytes are
\* needed removes no byte of the frame.
C13_DecodeFraming ==
    [][/\ decoded' # decoded =>
            /\ len(Pending) >= 4
            /\ len(Pending) >= 4 + FrameLength(Pending)
            /\ Len(decoded') = Len(decoded) + 1
            /\ SubSeq(decoded', 1, Len(decoded)) = decoded
            /\ decoded'[Len(decoded')].tag = byte_at(Pending, 4)
            /\ len(decoded'[Len(decoded')].payload) = FrameLength(Pending) - 1
            /\ decoded'[Len(decoded')].payload
                   = advance(truncate(Pending, 4 + FrameLength(Pending)), 5)
            /\ src' = advance(Pending, 4 + FrameLength(Pending))
            /\ len(src') = len(Pending) - (4 + FrameLength(Pending))
       /\ (readable /\ ~readable' /\ decode_error' = "none") => src' = Pending
      ]_vars

\* decode yielded the first of two frames read together, the second is still
\* in the buffer.
C13_Witness ==
    /\ Len(decoded) = 1
    /\ len(decoded[1].payload) = 4
    /\ readable
    /\ len(src) = 5

\* C14: sending a message whose payload has n bytes, n + 1 <= MAX, appends to
\* dst exactly the four bytes of n + 1 in big-endian order, the tag byte and
\* the n payload bytes; for n + 1 > MAX the send fails and dst is unchanged.
C14_EncodeContract ==
    [][(to_send # <<>> /\ to_send' = Tail(to_send)) =>
          LET item == Head(to_send)
              n == len(item.payload)
              at == len(dst)
          IN  IF n + 1 > MAX
              THEN dst' = dst /\ sent' = sent
              ELSE /\ len(dst') = at + 4 + 1 + n
                   /\ truncate(dst', at) = dst
                   /\ byte_at(dst', at) = ((n + 1) \div 16777216) % 256
                   /\ byte_at(dst', at + 1) = ((n + 1) \div 65536) % 256
                   /\ byte_at(dst', at + 2) = ((n + 1) \div 256) % 256
                   /\ byte_at(dst', at + 3) = (n + 1) % 256
                   /\ byte_at(dst', at + 4) = item.tag
                   /\ advance(dst', at + 5) = item.payload
                   /\ sent' = Append(sent, item)
      ]_vars

\* The longest frame encode writes: a payload of MAX - 1 bytes behind a tag
\* and a length prefix of MAX.
C14_Witness ==
    /\ Len(sent) = 1
    /\ len(sent[1].payload) = MAX - 1
    /\ len(dst) = 4 + MAX
    /\ from_be_bytes(dst) = MAX

\* C15: a call of decode that fails leaves in the buffer every byte of the
\* frame it refused, from the length prefix on (it removed the heartbeats in
\* front of it and nothing else, and yielded nothing), and decode called again
\* on the buffer it left fails with the same error and again removes nothing.
C15_ErrorsDoNotDrain ==
    [][(decode_error = "none" /\ decode_error' # "none") =>
          /\ src' = Pending
          /\ decoded' = decoded
          /\ len(src') >= 5
          /\ \/ decode_error' = "TooLarge" /\ FrameLength(src') > MAX
             \/ decode_error' = "UnknownTag" /\ byte_at(src', 4) \notin MessageTags
          /\ decode(src').result = decode_error'
          /\ decode(src').src = src'
      ]_vars

\* decode failed on a frame with the tag 9 written behind a heartbeat and in
\* front of a Choke frame: the heartbeat is gone, the frame and what follows it
\* are all there.
C15_Witness ==
    /\ decode_error = "UnknownTag"
    /\ decoded = <<>>
    /\ dst = <<>>
    /\ len(wire) = 4 + len(src)
    /\ src = <<<<0, 3>>, <<2, 1>>, <<9, 1>>, <<5, 1>>, <<0, 3>>, <<1, 1>>, <<0, 1>>>>

\* C16: a read error in the message loop ends the session: the step that
\* handles the error leaves the session returned, not on its way to another
\* get_piece call.
C16_ExitOnReadError ==
    [][\A w \in Workers : ReadError(w) => pc'[w] = "done"]_vars

\* C17: a session is at the finalization of its piece only with no block
\* pending and with received blocks that add up to exactly the piece size.
C17_LoopExit ==
    \A w \in Workers :
        (mode[w] = "session" /\ pc[w] = "finalize") =>
            /\ blocks_to_download[w] = <<>>
            /\ SumBytes(all_blocks[w]) = get_piece_size(piece_index[w])

\* C18: when the session reads a Piece message whose index is not the piece
\* it is downloading, or whose begin is not the offset of the next block it
\* has yet to receive, the block is not added to the received blocks and the
\* piece is back in the work queue.
C18_UnexpectedPiece ==
    [][\A w \in Workers : \A msg \in PeerMessages(in_flight[w]) :
          (/\ ReceiveMessage(w, msg)
           /\ msg.tag = Piece
           /\ \/ ref_from_bytes(msg.payload).index # piece_index[w]
              \/ ref_from_bytes(msg.payload).begin # Len(all_blocks[w]) * BLOCK_MAX)
            => /\ all_blocks'[w] # Append(all_blocks[w], ref_from_bytes(msg.payload).block)
               /\ Count(queue', piece_index[w]) > 0
      ]_vars

\* C19: at every point a session has at most one Request sent and not yet
\* answered by its Piece.
C19_PipelineDepthOne == \A w \in Workers : Len(in_flight[w]) <= 1

C21_HandshakeValidation ==
    [][\A w \in Workers :
          handshake[w] \in {"bad", "err"} =>
              /\ am_interested'[w] = am_interested[w]
              /\ pc'[w] \notin {"get", "recv"}]_vars

\* C22: a session exchanges the handshake before it sends Interested, and it
\* has sent Interested and set am_interested before it calls get_piece, holds
\* a piece or has sent a Request.
C22_StartupOrder ==
    \A w \in Workers :
        /\ pc[w] = "handshake" => handshake[w] = "none"
        /\ pc[w] = "interested" => handshake[w] \in {"ok", "bad", "err"}
        /\ pc[w] \in {"handshake", "interested"} =>
               /\ ~am_interested[w]
               /\ receiver_lock # w
               /\ piece_index[w] = None
               /\ in_flight[w] = <<>>
        /\ (\/ pc[w] \in {"get", "recv", "request", "read", "finalize", "done"}
            \/ receiver_lock = w
            \/ piece_index[w] # None
            \/ in_flight[w] # <<>>) => am_interested[w]

\* A session that is interested holds piece 0 and has a Request out.
C22_Witness ==
    \E w \in Workers :
        /\ am_interested[w]
        /\ pc[w] = "read"
        /\ piece_index[w] = 0
        /\ in_flight[w] # <<>>

\* C23: a piece attempt starts with every block of the piece pending, and a
\* block leaves pending only in the step that writes its Request; a send that
\* fails keeps every pending block (the popped one goes to the back) and takes
\* the session to the read phase.
C23_FailedSendKeepsBlock ==
    [][\A w \in Workers :
          /\ (mode[w] = "session" /\ piece_index[w] = None /\ piece_index'[w] # None)
                 => Range(blocks_to_download'[w])
                        = 0..(nblocks_of(get_piece_size(piece_index'[w])) - 1)
          /\ (piece_index[w] # None /\ piece_index'[w] = piece_index[w]) =>
                 \A j \in Range(blocks_to_download[w]) \ Range(blocks_to_download'[w]) :
                     /\ Len(in_flight'[w]) = Len(in_flight[w]) + 1
                     /\ in_flight'[w][Len(in_flight'[w])] = RequestFor(piece_index[w], j)
          /\ (pc[w] = "request" /\ pc'[w] # pc[w] /\ in_flight'[w] = in_flight[w]) =>
                 /\ pc'[w] = "read"
                 /\ Len(blocks_to_download'[w]) = Len(blocks_to_download[w])
                 /\ Range(blocks_to_download'[w]) = Range(blocks_to_download[w])
      ]_vars

\* The send of the Request for block 0 of a two-block piece failed: block 0 is
\* pending behind block 1 and the session is reading.
C23_Witness ==
    \E w \in Workers :
        /\ pc[w] = "read"
        /\ blocks_to_download[w] = <<1, 0>>
        /\ in_flight[w] = <<>>

\* C24: a worker that holds the output-buffer mutex does not touch the work
\* queue, and no worker holds the receiver lock and the output-buffer mutex
\* together.
C24_LockDiscipline ==
    [][\A w \in Workers :
          /\ ~(receiver_lock = w /\ buffer_lock = w)
          /\ (buffer_lock = w /\ pc'[w] # pc[w]) =>
                 queue' = queue /\ receiver_lock' = receiver_lock]_vars

\* C25: every value get_piece has handed to a worker is a piece index of the
\* torrent.
C25_OnlyPieceIndices ==
    \A w \in Workers : piece_index[w] # None => piece_index[w] \in PieceIndices

\* A worker whose next step sends a value into the queue's channel: a piece
\* that failed its hash check, or the value sent after the last piece.
AboutToEnqueue(w) ==
    \/ /\ pc[w] \in {"finalize", "dp_finalize"}
       /\ piece_index[w] \in PieceIndices
       /\ Sha1(all_blocks[w]) # piece_hash(piece_index[w])
    \/ pc[w] = "dp_sentinel"

\* C26: the queue never holds more entries than its capacity, the number of
\* initial indices, and whenever a worker is about to enqueue a value the
\* queue has a free slot.
C26_QueueNeverOverflows ==
    /\ Capacity = Len(InitialPieces)
    /\ Len(queue) <= Capacity
    /\ \A w \in Workers : AboutToEnqueue(w) => Len(queue) < Capacity

\* Every other index is back in the queue and a worker that has appended the
\* last piece is about to send one more value: the queue has one slot left.
C26_Witness ==
    /\ Len(queue) = Capacity - 1
    /\ \E w \in Workers : pc[w] = "dp_sentinel"

\* C27: the output buffer holds the payload of a piece index at most once:
\* no index was appended twice and no block of the file is in the buffer twice.
C27_NoDuplicatePieces ==
    /\ \A i \in PieceIndices : Count(assembled, i) <= 1
    /\ \A tok \in Tokens : Count(buffer, tok) <= 1

\* Both pieces are in the output, piece 1 first, and every worker has
\* returned.  One worker still has an unanswered request for a block of
\* piece 0: its attempt at piece 0 ended early, the hash check failed and the
\* index went back into the queue, from where it was taken and downloaded again.
C27_Witness ==
    /\ assembled = <<1, 0>>
    /\ buffer = PieceData(1) \o PieceData(0)
    /\ queue = <<>>
    /\ \A w \in Workers : pc[w] = "done"
    /\ \E w \in Workers : \E p \in 1..Len(in_flight[w]) :
            in_flight[w][p] = RequestFor(0, 1)

\* C28: a session that has not yet run a statement has am_choking and
\* peer_choking set and am_interested and peer_interested clear; at every
\* later point of a live session peer_choking is set exactly when the last
\* Choke or Unchoke message received was Choke or none was received, whatever
\* the piece the session works on.
C28_ChokeTracking ==
    \A w \in Workers :
        /\ pc[w] = "handshake" =>
               /\ am_choking[w] /\ ~am_interested[w]
               /\ peer_choking[w] /\ ~peer_interested[w]
        /\ pc[w] # "panicked" => (peer_choking[w] <=> last_choke[w] # Unchoke)

\* The session was unchoked during its first piece, which is in the output;
\* it has taken the second piece and, without a new Unchoke, is about to
\* request its first block.
C28_Witness ==
    \E w \in Workers :
        /\ assembled = <<0>>
        /\ piece_index[w] = 1
        /\ all_blocks[w] = <<>>
        /\ in_flight[w] = <<>>
        /\ pc[w] = "request"
        /\ ~peer_choking[w]
        /\ last_choke[w] = Unchoke

\* get_piece returning None ends the session, and a session that has returned
\* sends nothing more and takes nothing from the queue.
C29_ReturnsOnNone ==
    [][\A w \in Workers :
          /\ (pc[w] = "recv" /\ pc'[w] # "recv" /\ queue = <<>>) => pc'[w] = "done"
          /\ pc[w] = "done" =>
                 /\ pc'[w] = "done"
                 /\ in_flight'[w] = in_flight[w]
                 /\ am_interested'[w] = am_interested[w]
                 /\ piece_index'[w] = None]_vars

\* C29: with a peer that unchokes the session and answers every request with
\* the block asked for, every session with a connection eventually returns.
C29_EventuallyTerminates ==
    <>(\A w \in Workers : pc[w] \in {"unconnected", "done"})

\* The fields of worker w that stay as they are over the step, the bitfield
\* apart.
KeepsDownloadState(w) ==
    /\ am_choking'[w] = am_choking[w]
    /\ am_interested'[w] = am_interested[w]
    /\ peer_choking'[w] = peer_choking[w]
    /\ peer_interested'[w] = peer_interested[w]
    /\ piece_index'[w] = piece_index[w]
    /\ blocks_to_download'[w] = blocks_to_download[w]
    /\ all_blocks'[w] = all_blocks[w]

\* C30: a step in which a session receives Interested, NotInterested,
\* Request, Cancel or Have leaves its flags, its bitfield, its pending blocks
\* and its received blocks as they were; a step in which it receives Bitfield
\* stores the payload as the bitfield and leaves the flags, the pending and
\* the received blocks, the queue and the output buffer as they were.
C30_NonDrivingMessages ==
    [][\A w \in Workers : \A msg \in PeerMessages(in_flight[w]) :
          ReceiveMessage(w, msg) =>
              /\ msg.tag \in {Interested, NotInterested, Request, Cancel, Have} =>
                     /\ KeepsDownloadState(w)
                     /\ bitfield'[w] = bitfield[w]
              /\ msg.tag = Bitfield =>
                     /\ KeepsDownloadState(w)
                     /\ bitfield'[w] = msg.payload
                     /\ in_flight'[w] = in_flight[w]
                     /\ shared' = shared]_vars

\* An unchoked session holds the first block of piece 0, has the second
\* pending, and has stored a bitfield it received.
C30_Witness ==
    \E w \in Workers :
        /\ bitfield[w] = <<255>>
        /\ ~peer_choking[w]
        /\ piece_index[w] = 0
        /\ all_blocks[w] = <<<<0, 0>>>>
        /\ blocks_to_download[w] = <<1>>
        /\ pc[w] = "request"

RECURSIVE SumLengths(_)
\* The sum of the lengths the Requests of a sequence ask for.
SumLengths(reqs) == IF reqs = <<>> THEN 0 ELSE Head(reqs)[3] + SumLengths(Tail(reqs))

\* C31: for the piece sized last, of size S >= 1, the Request for block j
\* carries the piece index, begin = j * 16384 and the length 16384 while
\* another block follows and the rest S - j * 16384 for the last block; every
\* length is between 1 and 16384; no Request is built beyond byte S, and once
\* all are built there are ceil(S / 16384) of them and their lengths sum to S.
C31_BlockPartition ==
    piece_sizes # <<>> =>
        LET S == piece_sizes[Len(piece_sizes)]
            m == Len(requests)
        IN  S >= 1 =>
              /\ \A p \in 1..m :
                     /\ requests[p][1] = Len(piece_sizes) - 1
                     /\ requests[p][2] = (p - 1) * 16384
                     /\ requests[p][3] =
                            IF p * 16384 < S THEN 16384 ELSE S - (p - 1) * 16384
                     /\ 1 <= requests[p][3] /\ requests[p][3] <= 16384
              /\ (m - 1) * 16384 < S
              /\ ~ENABLED BuildRequest =>
                     /\ S <= m * 16384
                     /\ SumLengths(requests) = S

\* A piece of exactly two blocks has both its Requests, each of a full block.
C31_Witness ==
    /\ piece_sizes # <<>>
    /\ piece_sizes[Len(piece_sizes)] = 2 * BLOCK_MAX
    /\ requests = <<<<Len(piece_sizes) - 1, 0, BLOCK_MAX>>,
                    <<Len(piece_sizes) - 1, BLOCK_MAX, BLOCK_MAX>>>>

RECURSIVE SumSizes(_)
\* The sum of a sequence of piece sizes.
SumSizes(sizes) == IF sizes = <<>> THEN 0 ELSE Head(sizes) + SumSizes(Tail(sizes))

\* C32: for a descriptor of total length L, piece length P and n pieces,
\* get_piece_size returned P for every index below n - 1 and L - (n - 1) * P
\* for index n - 1, each time a value between 1 and P, and once all n pieces
\* are sized the sizes sum to L.
C32_PieceSize ==
    LET L == total_length
        P == info.plength
        n == info.pieces_len
    IN  /\ \A k \in 1..Len(piece_sizes) :
               /\ k - 1 < n - 1 => piece_sizes[k] = P
               /\ k - 1 = n - 1 => piece_sizes[k] = L - (n - 1) * P
               /\ 1 <= piece_sizes[k] /\ piece_sizes[k] <= P
        /\ Len(piece_sizes) = n => SumSizes(piece_sizes) = L

\* All three pieces of a two-file descriptor whose length is an exact
\* multiple of the piece length are sized, the last one as a full piece.
C32_Witness ==
    /\ info.keys.kind = "MultiFile"
    /\ info.pieces_len = 3
    /\ total_length = 3 * info.plength
    /\ piece_sizes = <<info.plength, info.plength, info.plength>>
    /\ info.plength = 2 * BLOCK_MAX

====
